---------------------------- MODULE Spec2Model ----------------------------
(***************************************************************************)
(* Model of src/src/main.rs: the SSD1675 bus interface (mod ssd1675) and   *)
(* the display configuration (mod Display).                                *)
(*                                                                         *)
(* A call of a handler is one action.  A handler is a list of primitive    *)
(* steps on the hardware (pin set, transport write, delay); every fallible *)
(* primitive ends the handler at its first failure (`?` returns the error, *)
(* `.unwrap()` panics), so a call executes a prefix of its step list.      *)
(***************************************************************************)
EXTENDS Integers, Sequences, FiniteSets, TLC

(***************************************************************************)
(* Program constants.                                                      *)
(***************************************************************************)
RESET_DELAY_MS == 10
MAX_GATES == 296
MAX_SOURCE_OUTPUTS == 160
MAX_DUMMY_LINE_PERIOD == 127
\* data.chunks(4096) in Interface::write
ChunkSize == 4096

(***************************************************************************)
(* Bounds of the model.                                                    *)
(***************************************************************************)
\* longest caller-supplied slice handed to a bulk command
MaxSliceLen == 2
\* busy-line samples recorded per busy_wait call (the counter saturates)
MaxBusySamples == 3
\* a unit-level payload of Interface::write spans up to this many full chunks
MaxChunks == 2

VARIABLES linux, dc, rst, pc, call, result, trace, display

vars == <<linux, dc, rst, pc, call, result, trace, display>>

Levels == {"low", "high"}
\* SPI::Error values the transport may return
Errors == {"EIO", "ETIMEDOUT"}

(***************************************************************************)
(* enum Command, in declaration order.                                     *)
(***************************************************************************)
Command ==
  << "DriverOutputControl", "GateDrivingVoltage", "SourceDrivingVoltage",
     "BoosterEnable", "GateScanStartPostion", "DeepSleepMode", "DataEntryMode",
     "SoftReset", "TemperatatSensorSelection", "WriteTemperatureSensor",
     "ReadTemperatureSensor", "WriteExternalTemperatureSensor", "UpdateDisplay",
     "UpdateDisplayOption1", "UpdateDisplayOption2", "EnterVCOMSensing",
     "VCOMSenseDuration", "WriteVCOM", "DummyLinePeriod", "GateLineWidth",
     "BorderWaveform", "StartEndXPosition", "StartEndYPosition",
     "AutoWriteColorPattern", "AutoWriteBlackPattern", "XAddress", "YAddress",
     "AnalogBlockControl", "DigitalBlockControl", "WriteBlackData",
     "WriteColorData", "WriteLUT" >>

Commands == { Command[i] : i \in 1..Len(Command) }

DeepSleepModes == {"Normal", "PreserveRAM", "DiscardRAM"}
DataEntryModes == {"DecrementXDecrementY", "IncrementXDecrementY",
                   "DecrementXIncrementY", "IncrementYIncrementX"}
IncrementAxes == {"Horizontal", "Vertical"}

TemperatureSensors == {"Internal", "External"}
RamOptions == {"Normal", "Bypass", "Invert"}

(***************************************************************************)
(* Input samples.                                                          *)
(***************************************************************************)
U8Samples == {127, 128}
U16Samples == {295, 4660}
\* bytes a caller's slice is made of
SliceBytes == {165}
\* what a read of a byte that holds no integer or enum (a pointer, a byte the
\* caller never set) may give
PunBytes == {2, 255}

SeqsUpTo(S, n) == UNION { [1..k -> S] : k \in 0..n }

(***************************************************************************)
(* union ComandData: the active field and its value.  FieldOf(c) is the    *)
(* field a caller fills for command c ("none": the command takes no        *)
(* argument, the union holds bytes the command does not use).              *)
(***************************************************************************)
FieldOf(c) ==
  CASE c = "DriverOutputControl" -> "driver_output_control"
    [] c = "GateDrivingVoltage" -> "gate_driving_voltage"
    [] c = "SourceDrivingVoltage" -> "source_driving_voltage"
    [] c = "BoosterEnable" -> "booster_enable"
    [] c = "GateScanStartPostion" -> "gate_scan_start_position"
    [] c = "DeepSleepMode" -> "deep_sleep_mode"
    [] c = "DataEntryMode" -> "data_entry_mode"
    [] c = "TemperatatSensorSelection" -> "temperature_sensor_selection"
    [] c = "WriteTemperatureSensor" -> "write_temperature_sensor"
    [] c = "ReadTemperatureSensor" -> "read_temperature_sensor"
    [] c = "WriteExternalTemperatureSensor" -> "write_external_temperature_sensor"
    [] c = "UpdateDisplayOption1" -> "update_display_option_1"
    [] c = "UpdateDisplayOption2" -> "update_display_option_2"
    [] c = "VCOMSenseDuration" -> "vcom_sense_duration"
    [] c = "WriteVCOM" -> "write_vcom"
    [] c = "DummyLinePeriod" -> "dummy_line_period"
    [] c = "GateLineWidth" -> "gate_line_width"
    [] c = "BorderWaveform" -> "border_wave_form"
    [] c = "StartEndXPosition" -> "start_end_x_position"
    [] c = "StartEndYPosition" -> "start_end_y_position"
    [] c = "AutoWriteColorPattern" -> "auto_write_color_pattern"
    [] c = "AutoWriteBlackPattern" -> "auto_write_black_pattern"
    [] c = "XAddress" -> "x_address"
    [] c = "YAddress" -> "y_address"
    [] c = "AnalogBlockControl" -> "analog_block_control"
    [] c = "DigitalBlockControl" -> "digital_block_control"
    [] c = "WriteBlackData" -> "write_black_data"
    [] c = "WriteColorData" -> "write_color_data"
    [] c = "WriteLUT" -> "write_lut"
    [] OTHER -> "none"

\* the type of each field of the union
FieldType(f) ==
  CASE f \in {"gate_driving_voltage", "update_display_option_2",
              "vcom_sense_duration", "write_vcom", "dummy_line_period",
              "gate_line_width", "border_wave_form", "auto_write_color_pattern",
              "auto_write_black_pattern", "x_address", "y_address",
              "analog_block_control", "digital_block_control"} -> "u8"
    [] f \in {"gate_scan_start_position", "write_temperature_sensor",
              "read_temperature_sensor"} -> "u16"
    [] f = "driver_output_control" -> "u16_u8"
    [] f = "start_end_x_position" -> "u8x2"
    [] f \in {"source_driving_voltage",
              "write_external_temperature_sensor"} -> "u8x3"
    [] f = "booster_enable" -> "u8x4"
    [] f = "start_end_y_position" -> "u16x2"
    [] f = "deep_sleep_mode" -> "DeepSleepMode"
    [] f = "data_entry_mode" -> "DataEntryMode_IncrementAxis"
    [] f = "temperature_sensor_selection" -> "TemperatureSensor"
    [] f = "update_display_option_1" -> "RamOption_RamOption"
    [] f \in {"write_black_data", "write_color_data", "write_lut"} -> "slice"
    [] OTHER -> "none"

\* the values of each type the model draws
ValuesOf(t) ==
  CASE t = "u8" -> U8Samples
    [] t = "u16" -> U16Samples
    [] t = "u16_u8" -> {<<295, 0>>, <<4660, 128>>}
    [] t = "u8x2" -> {<<0, 12>>}
    [] t = "u8x3" -> {<<65, 168, 50>>}
    [] t = "u8x4" -> {<<139, 156, 150, 15>>}
    [] t = "u16x2" -> {<<0, 295>>, <<4660, 65535>>}
    [] t = "DeepSleepMode" -> DeepSleepModes
    [] t = "DataEntryMode_IncrementAxis" -> DataEntryModes \X IncrementAxes
    [] t = "TemperatureSensor" -> {"External"}
    [] t = "RamOption_RamOption" -> {<<"Bypass", "Invert">>}
    [] t = "slice" -> SeqsUpTo(SliceBytes, MaxSliceLen)
    [] OTHER -> {0}

ComandData(c) ==
  { [field |-> FieldOf(c), val |-> v] : v \in ValuesOf(FieldType(FieldOf(c))) }

\* u16::to_be_bytes: [upper, lower]
ToBeBytes(v) == << (v \div 256) % 256, v % 256 >>

RangeOf(s) == { s[i] : i \in 1..Len(s) }

\* the discriminant of a variant of a field-less enum: its place in the
\* declaration, from 0
Discriminant(x) ==
  CASE x \in {"Normal", "DecrementXDecrementY", "Horizontal", "Internal"} -> 0
    [] x \in {"PreserveRAM", "IncrementXDecrementY", "Vertical", "External",
              "Bypass"} -> 1
    [] x \in {"DiscardRAM", "DecrementXIncrementY", "Invert"} -> 2
    [] x = "IncrementYIncrementX" -> 3

(***************************************************************************)
(* The bytes a u8 read of the union may give when the active field is not  *)
(* the one read: a byte of the stored value (which byte depends on the     *)
(* layout the build chose: the byte order of the host, the order of a      *)
(* tuple's fields), an enum being stored as its discriminant; any byte     *)
(* where the storage holds a slice or was never set.                       *)
(***************************************************************************)
PunU8(cd) ==
  LET t == FieldType(cd.field) IN
  CASE t = "u8" -> {cd.val}
    [] t = "u16" -> RangeOf(ToBeBytes(cd.val))
    [] t = "u16_u8" -> RangeOf(ToBeBytes(cd.val[1])) \cup {cd.val[2]}
    [] t \in {"u8x2", "u8x3", "u8x4"} -> RangeOf(cd.val)
    [] t = "u16x2" -> RangeOf(ToBeBytes(cd.val[1])) \cup RangeOf(ToBeBytes(cd.val[2]))
    [] t \in {"DeepSleepMode", "TemperatureSensor"} -> {Discriminant(cd.val)}
    [] t \in {"DataEntryMode_IncrementAxis", "RamOption_RamOption"} ->
         {Discriminant(cd.val[1]), Discriminant(cd.val[2])}
    [] OTHER -> PunBytes

\* command_data.<f>: the value when f is the active field, else the punned read
ReadField(cd, f, pun) == IF cd.field = f THEN cd.val ELSE pun

(***************************************************************************)
(* Bitwise OR of two bytes (axis | mode).                                  *)
(***************************************************************************)
RECURSIVE BitOr(_, _)
BitOr(a, b) ==
  IF a = 0 THEN b
  ELSE IF b = 0 THEN a
  ELSE (IF a % 2 = 1 \/ b % 2 = 1 THEN 1 ELSE 0) + 2 * BitOr(a \div 2, b \div 2)

\* match command_data.deep_sleep_mode { ... }
DeepSleepBits(m) ==
  CASE m = "Normal" -> 0
    [] m = "PreserveRAM" -> 1
    [] m = "DiscardRAM" -> 3

\* match command_data.data_entry_mode.0 { ... }
DataEntryBits(m) ==
  CASE m = "DecrementXDecrementY" -> 0
    [] m = "IncrementXDecrementY" -> 1
    [] m = "DecrementXIncrementY" -> 2
    [] m = "IncrementYIncrementX" -> 3

\* match command_data.data_entry_mode.1 { ... }
AxisBits(a) ==
  CASE a = "Horizontal" -> 0
    [] a = "Vertical" -> 4

(***************************************************************************)
(* The arms of `match command` in send_command, in source order, each with *)
(* the kind of its pattern.  Only the first arm names its variant by path  *)
(* (Command::DriverOutputControl).  The other arms are bare identifiers,   *)
(* and the module imports no variant of Command (its only imports are      *)
(* embedded_hal and core::fmt::Debug), so none of them resolves to a       *)
(* variant: each is an identifier pattern, which binds the scrutinee and   *)
(* matches every value.  "wild" is the final `_`.                          *)
(***************************************************************************)
Arms ==
  << [kind |-> "path",  name |-> "DriverOutputControl"],
     [kind |-> "ident", name |-> "GateDrivingVoltage"],
     [kind |-> "ident", name |-> "SourceDrivingVoltage"],
     [kind |-> "ident", name |-> "BoosterEnable"],
     [kind |-> "ident", name |-> "GateScanStartPostion"],
     [kind |-> "ident", name |-> "DeepSleepMode"],
     [kind |-> "ident", name |-> "DataEntryMode"],
     [kind |-> "ident", name |-> "SoftReset"],
     [kind |-> "ident", name |-> "UpdateDisplay"],
     [kind |-> "ident", name |-> "UpdateDisplayOption2"],
     [kind |-> "ident", name |-> "WriteVCOM"],
     [kind |-> "ident", name |-> "DummyLinePeriod"],
     [kind |-> "ident", name |-> "GateLineWidth"],
     [kind |-> "ident", name |-> "BorderWaveform"],
     [kind |-> "ident", name |-> "StartEndXPosition"],
     [kind |-> "ident", name |-> "StartEndYPosition"],
     [kind |-> "ident", name |-> "XAddress"],
     [kind |-> "ident", name |-> "YAddress"],
     [kind |-> "ident", name |-> "AnalogBlockControl"],
     [kind |-> "ident", name |-> "DigitalBlockControl"],
     [kind |-> "ident", name |-> "WriteBlackData"],
     [kind |-> "ident", name |-> "WriteColorData"],
     [kind |-> "ident", name |-> "WriteLUT"],
     [kind |-> "wild",  name |-> "_"] >>

\* whether a pattern matches the scrutinee
PatMatches(pat, command) ==
  \/ pat.kind = "path" /\ command = pat.name
  \/ pat.kind = "ident"
  \/ pat.kind = "wild"

\* match: the first arm, in source order, whose pattern matches
MatchedArm(command) ==
  CHOOSE i \in 1..Len(Arms) :
    /\ PatMatches(Arms[i], command)
    /\ \A j \in 1..(i - 1) : ~PatMatches(Arms[j], command)

Pack(cmd, args) == [panic |-> FALSE, op |-> cmd, data |-> args]

(***************************************************************************)
(* The body of the arm named a: (opcode, argument bytes), or the panic of  *)
(* unimplemented!().  pun is what a read of a field that is not the active *)
(* one gives.                                                              *)
(***************************************************************************)
ArmBody(a, cd, pun) ==
  CASE a = "DriverOutputControl" ->
         LET v == ReadField(cd, "driver_output_control", pun)
             b == ToBeBytes(v[1])
         IN  Pack(1, <<b[2], b[1], v[2]>>)
    [] a = "GateDrivingVoltage" ->
         Pack(3, <<ReadField(cd, "gate_driving_voltage", pun)>>)
    [] a = "SourceDrivingVoltage" ->
         LET v == ReadField(cd, "source_driving_voltage", pun)
         IN  Pack(4, <<v[1], v[2], v[3]>>)
    [] a = "BoosterEnable" ->
         LET v == ReadField(cd, "booster_enable", pun)
         IN  Pack(12, <<v[1], v[2], v[3], v[4]>>)
    [] a = "GateScanStartPostion" ->
         LET b == ToBeBytes(ReadField(cd, "gate_scan_start_position", pun))
         IN  Pack(15, <<b[2], b[1]>>)
    [] a = "DeepSleepMode" ->
         Pack(16, <<DeepSleepBits(ReadField(cd, "deep_sleep_mode", pun))>>)
    [] a = "DataEntryMode" ->
         LET v == ReadField(cd, "data_entry_mode", pun)
         IN  Pack(17, <<BitOr(AxisBits(v[2]), DataEntryBits(v[1]))>>)
    [] a = "SoftReset" -> Pack(18, <<>>)
    [] a = "UpdateDisplay" -> Pack(32, <<>>)
    [] a = "UpdateDisplayOption2" ->
         Pack(34, <<ReadField(cd, "update_display_option_2", pun)>>)
    [] a = "WriteVCOM" ->
         Pack(44, <<ReadField(cd, "vcom_sense_duration", pun)>>)
    [] a = "DummyLinePeriod" ->
         Pack(58, <<ReadField(cd, "dummy_line_period", pun)>>)
    [] a = "GateLineWidth" ->
         Pack(59, <<ReadField(cd, "gate_line_width", pun)>>)
    [] a = "BorderWaveform" ->
         Pack(60, <<ReadField(cd, "border_wave_form", pun)>>)
    [] a = "StartEndXPosition" ->
         LET v == ReadField(cd, "start_end_x_position", pun)
         IN  Pack(68, <<v[1], v[2]>>)
    [] a = "StartEndYPosition" ->
         LET v == ReadField(cd, "start_end_y_position", pun)
             s == ToBeBytes(v[1])
             e == ToBeBytes(v[2])
         IN  Pack(69, <<s[2], s[1], e[2], e[1]>>)
    [] a = "XAddress" -> Pack(78, <<ReadField(cd, "x_address", pun)>>)
    [] a = "YAddress" -> Pack(79, <<ReadField(cd, "y_address", pun)>>)
    [] a = "AnalogBlockControl" ->
         Pack(116, <<ReadField(cd, "analog_block_control", pun)>>)
    [] a = "DigitalBlockControl" ->
         Pack(126, <<ReadField(cd, "digital_block_control", pun)>>)
    [] a = "WriteBlackData" -> Pack(36, ReadField(cd, "write_black_data", pun))
    [] a = "WriteColorData" -> Pack(38, ReadField(cd, "write_color_data", pun))
    [] a = "WriteLUT" -> Pack(50, ReadField(cd, "write_lut", pun))
    [] OTHER -> [panic |-> TRUE, op |-> 0, data |-> <<>>]

\* let (command, data) = match command { ... }
Encode(command, cd, pun) == ArmBody(Arms[MatchedArm(command)].name, cd, pun)

(***************************************************************************)
(* Primitive steps of a handler.                                           *)
(***************************************************************************)
\* OutputPin::set_low / set_high on a line
PinSet(line, v) == [k |-> "pin", line |-> line, v |-> v, bytes |-> <<>>, ms |-> 0]
\* spi.write(bytes)
SpiWrite(bytes) == [k |-> "spi", line |-> "spi", v |-> "-", bytes |-> bytes, ms |-> 0]
\* delay.delay_ms(ms)
DelayMs(ms) == [k |-> "delay", line |-> "delay", v |-> "-", bytes |-> <<>>, ms |-> ms]

Min(a, b) == IF a <= b THEN a ELSE b

\* data.chunks(ChunkSize): split off min(len, ChunkSize) bytes until none is left
RECURSIVE Chunks(_)
Chunks(data) ==
  IF Len(data) = 0 THEN <<>>
  ELSE LET n == Min(Len(data), ChunkSize)
       IN  <<SubSeq(data, 1, n)>> \o Chunks(SubSeq(data, n + 1, Len(data)))

\* write with the chip-select line driven low before and high after
WriteStepsChipSelect(data) ==
  <<PinSet("cs", "low")>>
    \o (IF linux
        THEN LET cs == Chunks(data) IN [i \in 1..Len(cs) |-> SpiWrite(cs[i])]
        ELSE <<SpiWrite(data)>>)
    \o <<PinSet("cs", "high")>>

\* Interface::write: one spi.write per chunk on Linux, one spi.write of all else
WriteSteps(data) ==
  IF linux
  THEN LET cs == Chunks(data) IN [i \in 1..Len(cs) |-> SpiWrite(cs[i])]
  ELSE <<SpiWrite(data)>>

\* send_command_code without driving the command-select line low first
SendCommandCodeStepsNoSelect(command) ==
  WriteSteps(<<command>>) \o <<PinSet("dc", "high")>>

\* Interface::send_command_code
SendCommandCodeSteps(command) ==
  <<PinSet("dc", "low")>> \o WriteSteps(<<command>>) \o <<PinSet("dc", "high")>>

\* Interface::send_data
SendDataSteps(data) == <<PinSet("dc", "high")>> \o WriteSteps(data)

\* the tail of Interface::send_command, after the match
SendCommandSteps(enc) ==
  SendCommandCodeSteps(enc.op)
    \o (IF Len(enc.data) = 0 THEN <<>> ELSE SendDataSteps(enc.data))

\* a reset that does not hold the line low
ResetStepsNoHold ==
  << PinSet("reset", "low"), PinSet("reset", "high"), DelayMs(RESET_DELAY_MS) >>

\* Interface::reset
ResetSteps ==
  << PinSet("reset", "low"), DelayMs(RESET_DELAY_MS),
     PinSet("reset", "high"), DelayMs(RESET_DELAY_MS) >>

(***************************************************************************)
(* Running a step list.  f = 0: every step succeeds; else step f fails.    *)
(* A failed spi.write is returned with `?`, a failed pin set panics in     *)
(* `.unwrap()`: either way no later step runs.                             *)
(***************************************************************************)
\* a run that goes on after the failed step
ExecutedIgnoringFailure(steps, f) == steps

\* the steps that run
Executed(steps, f) == IF f = 0 THEN steps ELSE SubSeq(steps, 1, f)

\* where a failure may be injected: 0 or the index of a fallible step
FailPoints(steps) ==
  {0} \cup { i \in 1..Len(steps) : steps[i].k \in {"pin", "spi"} }

\* the level of a line after the first n steps, all successful, from level l0
RECURSIVE LevelAfter(_, _, _, _)
LevelAfter(steps, n, line, l0) ==
  IF n = 0 THEN l0
  ELSE IF steps[n].k = "pin" /\ steps[n].line = line THEN steps[n].v
  ELSE LevelAfter(steps, n - 1, line, l0)

\* the events of a run: each step that ran, whether it succeeded, the error
\* it failed with, and for a transport write the level of the command-select
\* line when it ran
Events(steps, f, e, dc0) ==
  LET ex == Executed(steps, f) IN
  [ i \in 1..Len(ex) |->
      [ k |-> ex[i].k, line |-> ex[i].line, v |-> ex[i].v, bytes |-> ex[i].bytes,
        ms |-> ex[i].ms,
        ok |-> (i # f),
        err |-> IF i = f /\ ex[i].k = "spi" THEN e ELSE "-",
        dc |-> IF ex[i].k = "spi" THEN LevelAfter(ex, i - 1, "dc", dc0) ELSE "-" ] ]

\* what the handler gives back: Ok(()), the transport's error, or a panic
Outcome(steps, f, e) ==
  IF f = 0 THEN "Ok"
  ELSE IF steps[f].k = "spi" THEN e
  ELSE "panic"

\* the level of a line had every step of the run been made
LevelAtEndRestored(steps, f, line, l0) ==
  LevelAfter(steps, Len(steps), line, l0)

\* the level of a line after a run
LevelAtEnd(steps, f, line, l0) ==
  LevelAfter(steps, IF f = 0 THEN Len(steps) ELSE f - 1, line, l0)

(***************************************************************************)
(* State.                                                                  *)
(*   linux    whether the build targets Linux (cfg!(target_os = "linux"))  *)
(*   dc, rst  the levels of the command-select and reset lines             *)
(*   pc       "idle", "busy_wait" (inside the loop of busy_wait),          *)
(*            "panicked", or "dropped" (the Display was moved into a call  *)
(*            that took it by value, and dropped at its end)               *)
(*   call     the last call: the handler and its arguments                 *)
(*   result   what the last call gave back                                 *)
(*   trace    the events of the last call                                  *)
(*   display  the fields of struct Display; an Option is a sequence of no  *)
(*            element (None) or one (Some)                                 *)
(***************************************************************************)
NoCall == [op |-> "none", command |-> "-", data |-> [field |-> "none", val |-> 0]]

\* rows and cols handed to Display::dimensions
RowSamples == {0, 212, MAX_GATES, MAX_GATES + 1, 300, 65535}
ColSamples == {0, 8, 104, 121, MAX_SOURCE_OUTPUTS, MAX_SOURCE_OUTPUTS + 1, 168, 65528}

\* struct Display has no constructor in the source: a display starts with
\* dimensions that satisfy the checks of Display::dimensions
InitialDisplays ==
  { [ dummy_line_period |-> 0, gate_line_width |-> 0, write_vcom |-> 0,
      rotation |-> "Rotate0", lut |-> <<>>, rows |-> r, cols |-> c ] :
      r \in {0, 212}, c \in {0, 104} }

\* the display the bus interface is observed beside
DefaultDisplay ==
  [ dummy_line_period |-> 0, gate_line_width |-> 0, write_vcom |-> 0,
    rotation |-> "Rotate0", lut |-> <<>>, rows |-> 212, cols |-> 104 ]

\* the Linux build, the one the source is written for (it differs from the
\* other builds only in Interface::write, see InitUnit)
Init ==
  /\ linux = TRUE
  /\ dc \in Levels
  /\ rst \in Levels
  /\ pc = "idle"
  /\ call = NoCall
  /\ result = "none"
  /\ trace = <<>>
  /\ display = DefaultDisplay

\* either build
InitUnit ==
  /\ linux \in BOOLEAN
  /\ dc \in Levels
  /\ rst \in Levels
  /\ pc = "idle"
  /\ call = NoCall
  /\ result = "none"
  /\ trace = <<>>
  /\ display = DefaultDisplay

\* the state in which a display configuration is built: no bus traffic yet
InitDisplay ==
  /\ linux = TRUE
  /\ dc \in Levels
  /\ rst \in Levels
  /\ pc = "idle"
  /\ call = NoCall
  /\ result = "none"
  /\ trace = <<>>
  /\ display \in InitialDisplays

\* the state a finished call leaves in pc
PcAfter(res) == IF res = "panic" THEN "panicked" ELSE "idle"

\* Interface::send_command
SendCommand(command, cd, pun, f, e) ==
  /\ pc = "idle"
  /\ LET enc == Encode(command, cd, pun) IN
       /\ call' = [op |-> "send_command", command |-> command, data |-> cd]
       /\ IF enc.panic
          THEN /\ f = 0
               /\ result' = "panic"
               /\ trace' = <<>>
               /\ dc' = dc
               /\ pc' = "panicked"
          ELSE LET steps == SendCommandSteps(enc) IN
               /\ f \in FailPoints(steps)
               /\ result' = Outcome(steps, f, e)
               /\ trace' = Events(steps, f, e, dc)
               /\ dc' = LevelAtEnd(steps, f, "dc", dc)
               /\ pc' = PcAfter(Outcome(steps, f, e))
  /\ UNCHANGED <<linux, rst, display>>

\* Interface::reset
Reset(f) ==
  /\ pc = "idle"
  /\ f \in FailPoints(ResetSteps)
  /\ call' = [op |-> "reset", command |-> "-", data |-> [field |-> "none", val |-> 0]]
  /\ result' = Outcome(ResetSteps, f, "-")
  /\ trace' = Events(ResetSteps, f, "-", dc)
  /\ rst' = LevelAtEnd(ResetSteps, f, "reset", rst)
  /\ pc' = PcAfter(Outcome(ResetSteps, f, "-"))
  /\ UNCHANGED <<linux, dc, display>>

\* Interface::busy_wait is entered
BusyWaitCall ==
  /\ pc = "idle"
  /\ call' = [op |-> "busy_wait", command |-> "-", data |-> [field |-> "none", val |-> 0]]
  /\ result' = "pending"
  /\ trace' = <<>>
  /\ pc' = "busy_wait"
  /\ UNCHANGED <<linux, dc, rst, display>>

\* a loop that also spins on a failed read
StaysBusyOnError(r) == r \in {"high", "err"}

\* the condition of the loop: match self.busy.is_high() { Ok(x) => x, _ => false }
StaysBusy(r) == r = "high"

\* the samples of the current busy_wait, the last MaxBusySamples of them
Sampled(tr, r) ==
  LET ev == [k |-> "busy", line |-> "busy", v |-> r, bytes |-> <<>>, ms |-> 0,
             ok |-> (r # "err"), err |-> "-", dc |-> "-"]
  IN  IF Len(tr) < MaxBusySamples THEN Append(tr, ev) ELSE Append(Tail(tr), ev)

\* a loop that gives up after MaxBusySamples samples
BusySampleTimeout(r) ==
  /\ pc = "busy_wait"
  /\ trace' = Sampled(trace, r)
  /\ IF StaysBusy(r) /\ Len(trace) < MaxBusySamples
     THEN UNCHANGED <<pc, result>>
     ELSE pc' = "idle" /\ result' = "returned"
  /\ UNCHANGED <<linux, dc, rst, call, display>>

\* one turn of the loop of busy_wait: the line is sampled (r: Ok(true) "high",
\* Ok(false) "low", Err "err"), and the loop goes on or the call returns
BusySample(r) ==
  /\ pc = "busy_wait"
  /\ trace' = Sampled(trace, r)
  /\ IF StaysBusy(r)
     THEN UNCHANGED <<pc, result>>
     ELSE pc' = "idle" /\ result' = "returned"
  /\ UNCHANGED <<linux, dc, rst, call, display>>

(***************************************************************************)
(* Display::dimensions.  Its three assert!s in source order; the second    *)
(* compares rows with ssd1675::MAX_GATE_OUTPUTS, a name the source does    *)
(* not define: the gate limit of the source is MAX_GATES.                  *)
(***************************************************************************)
\* checks with strict limits
FailedAssertStrict(rows, cols) ==
  IF ~(cols % 8 = 0) THEN "columns must be evenly divisible by 8"
  ELSE IF ~(rows < MAX_GATES) THEN "rows must be less than MAX_GATE_OUTPUTS"
  ELSE IF ~(cols < MAX_SOURCE_OUTPUTS) THEN "cols must be less than MAX_SOURCE_OUTPUTS"
  ELSE "none"

\* the message of the first assert! that fails, "none" when all hold
FailedAssert(rows, cols) ==
  IF ~(cols % 8 = 0) THEN "columns must be evenly divisible by 8"
  ELSE IF ~(rows <= MAX_GATES) THEN "rows must be less than MAX_GATE_OUTPUTS"
  ELSE IF ~(cols <= MAX_SOURCE_OUTPUTS) THEN "cols must be less than MAX_SOURCE_OUTPUTS"
  ELSE "none"

\* dimensions storing rows ahead of its assert!s
DimensionsStoreFirst(rows, cols) ==
  /\ pc = "idle"
  /\ call' = [op |-> "dimensions", command |-> FailedAssert(rows, cols),
              data |-> [field |-> "none", val |-> <<rows, cols>>]]
  /\ trace' = <<>>
  /\ IF FailedAssert(rows, cols) # "none"
     THEN /\ result' = "panic"
          /\ pc' = "panicked"
          /\ display' = [display EXCEPT !.rows = rows]
     ELSE /\ result' = "Ok"
          /\ pc' = "idle"
          /\ display' = [display EXCEPT !.rows = rows, !.cols = cols]
  /\ UNCHANGED <<linux, dc, rst>>

Dimensions(rows, cols) ==
  /\ pc = "idle"
  /\ call' = [op |-> "dimensions", command |-> FailedAssert(rows, cols),
              data |-> [field |-> "none", val |-> <<rows, cols>>]]
  /\ trace' = <<>>
  /\ IF FailedAssert(rows, cols) # "none"
     THEN /\ result' = "panic"
          /\ pc' = "panicked"
          /\ display' = display
     ELSE /\ result' = "Ok"
          /\ pc' = "idle"
          /\ display' = [display EXCEPT !.rows = rows, !.cols = cols]
  /\ UNCHANGED <<linux, dc, rst>>

(***************************************************************************)
(* Display::lut.  It takes self by value and stores the slice it is given  *)
(* without looking at its length; the display is dropped when it returns.  *)
(***************************************************************************)
\* the lengths of the tables handed to Display::lut
LutLens == {69, 70, 71}

\* a table of n bytes
LutTable == [n \in LutLens |-> [i \in 1..n |-> (i * 3) % 256]]

Lut(n) ==
  /\ pc = "idle"
  /\ call' = [op |-> "lut", command |-> "-",
              data |-> [field |-> "none", val |-> LutTable[n]]]
  /\ trace' = <<>>
  /\ display' = [display EXCEPT !.lut = <<LutTable[n]>>]
  /\ result' = "Ok"
  /\ pc' = "dropped"
  /\ UNCHANGED <<linux, dc, rst>>

(***************************************************************************)
(* Interface::write applied on its own to a payload (the function is       *)
(* private: send_command_code and send_data are its callers).              *)
(***************************************************************************)
UnitPayloadLens ==
  { n \in { k * ChunkSize + d : k \in 0..MaxChunks, d \in {-1, 0, 1} } : n >= 0 }

\* a payload of n bytes whose chunks differ from one another
Payload == [n \in UnitPayloadLens |-> [i \in 1..n |-> (i * 7) % 251]]

WriteCall(n, f, e) ==
  /\ pc = "idle"
  /\ LET steps == WriteSteps(Payload[n]) IN
       /\ f \in FailPoints(steps)
       /\ call' = [op |-> "write", command |-> "-",
                   data |-> [field |-> "none", val |-> n]]
       /\ result' = Outcome(steps, f, e)
       /\ trace' = Events(steps, f, e, dc)
       /\ pc' = PcAfter(Outcome(steps, f, e))
  /\ UNCHANGED <<linux, dc, rst, display>>

(* Specifications.                                                         *)
(*   Spec         the calls a user of Interface can make                   *)
(*   SpecLive     Spec with a busy line that does not stay high for ever   *)
(*   SpecUnit     those, and Interface::write applied on its own           *)
(*   SpecDisplay  the calls a user of Display can make; Display holds no   *)
(*                Interface and never touches the bus                      *)
(***************************************************************************)
\* the step list of a send_command call (empty when the match panics)
StepsOf(command, cd, pun) ==
  LET enc == Encode(command, cd, pun)
  IN  IF enc.panic THEN <<>> ELSE SendCommandSteps(enc)

\* the errors a failure at step f may carry
ErrorsAt(steps, f) == IF f # 0 /\ steps[f].k = "spi" THEN Errors ELSE {"-"}

Next ==
  \/ \E command \in Commands : \E cd \in ComandData(command) :
       \E pun \in PunU8(cd) :
         \E f \in FailPoints(StepsOf(command, cd, pun)) :
           \E e \in ErrorsAt(StepsOf(command, cd, pun), f) :
             SendCommand(command, cd, pun, f, e)
  \/ \E f \in FailPoints(ResetSteps) : Reset(f)
  \/ BusyWaitCall
  \/ \E r \in {"high", "low", "err"} : BusySample(r)

Spec == Init /\ [][Next]_vars

\* the busy line does not read high for ever: the loop of busy_wait, which
\* samples it again and again, eventually gets a low or a failed sample
BusySampleEnds == \E r \in {"low", "err"} : BusySample(r)

SpecLive == Init /\ [][Next]_vars /\ WF_vars(BusySampleEnds)

NextUnit ==
  \/ Next
  \/ \E n \in UnitPayloadLens :
       \E f \in FailPoints(WriteSteps(Payload[n])) :
         \E e \in ErrorsAt(WriteSteps(Payload[n]), f) :
           WriteCall(n, f, e)

SpecUnit == InitUnit /\ [][NextUnit]_vars

NextDisplay ==
  \/ \E rows \in RowSamples : \E cols \in ColSamples : Dimensions(rows, cols)
  \/ \E n \in LutLens : Lut(n)

SpecDisplay == InitDisplay /\ [][NextDisplay]_vars

(***************************************************************************)
(* Reading the record of the last call.                                    *)
(***************************************************************************)
IsSend == call.op = "send_command"

IsPin(ev, line, v) == ev.k = "pin" /\ ev.line = line /\ ev.v = v

\* the bytes of the transport writes of tr from event i on, in order
RECURSIVE BytesFrom(_, _)
BytesFrom(tr, i) ==
  IF i > Len(tr) THEN <<>>
  ELSE (IF tr[i].k = "spi" THEN tr[i].bytes ELSE <<>>) \o BytesFrom(tr, i + 1)

\* command-select low, one write of one byte, command-select high
OpcodePhase(tr) ==
  /\ Len(tr) >= 3
  /\ IsPin(tr[1], "dc", "low")
  /\ tr[2].k = "spi" /\ Len(tr[2].bytes) = 1 /\ tr[2].dc = "low"
  /\ IsPin(tr[3], "dc", "high")

\* after the opcode phase: the line is only ever set high, writes see it high
DataPhase(tr) ==
  \A i \in 4..Len(tr) :
    /\ tr[i].k \in {"pin", "spi"}
    /\ tr[i].k = "pin" => IsPin(tr[i], "dc", "high")
    /\ tr[i].k = "spi" => tr[i].dc = "high"

BulkCommands == {"WriteBlackData", "WriteColorData", "WriteLUT"}

\* the commands send_command has no arm for
UnencodedCommands ==
  { "TemperatatSensorSelection", "WriteTemperatureSensor", "ReadTemperatureSensor",
    "WriteExternalTemperatureSensor", "UpdateDisplayOption1", "EnterVCOMSensing",
    "VCOMSenseDuration", "AutoWriteColorPattern", "AutoWriteBlackPattern" }

\* a call whose command takes no argument byte
ZeroArgCall ==
  \/ call.command \in {"SoftReset", "UpdateDisplay"}
  \/ call.command \in BulkCommands /\ call.data.val = <<>>

(***************************************************************************)
(* C1.  A send_command call whose transport writes all succeed does:       *)
(* command-select low, one write of the one opcode byte, command-select    *)
(* high, and then, when the command has argument bytes, writes them with   *)
(* command-select high; a command without argument bytes (SoftReset,       *)
(* UpdateDisplay, a bulk command given an empty slice) does the opcode     *)
(* phase only and no data write.                                           *)
(***************************************************************************)
C1_PhaseOrdering ==
  (IsSend /\ result = "Ok") =>
    /\ OpcodePhase(trace)
    /\ DataPhase(trace)
    /\ ZeroArgCall => Len(trace) = 3
    /\ ~ZeroArgCall => \E i \in 4..Len(trace) : trace[i].k = "spi"

\* the part of C1 that does not name the commands: a call that wrote no
\* argument does the opcode phase only, one that wrote some does both phases
C1_PhasesOfEncodedLength ==
  (IsSend /\ result = "Ok") =>
    /\ OpcodePhase(trace)
    /\ DataPhase(trace)
    /\ Len(BytesFrom(trace, 4)) = 0 => Len(trace) = 3

(***************************************************************************)
(* C2.  On the Linux build write(data) of n bytes issues exactly           *)
(* ceil(n / 4096) transport writes, each non-empty and of at most 4096     *)
(* bytes, whose concatenation is the payload; so a bulk command delivers   *)
(* the caller's slice verbatim.                                            *)
(***************************************************************************)
\* write(data) on its own
WriteChunking ==
  (call.op = "write" /\ linux /\ result = "Ok") =>
    /\ Len(trace) = (call.data.val + ChunkSize - 1) \div ChunkSize
    /\ \A i \in 1..Len(trace) :
         /\ trace[i].k = "spi"
         /\ Len(trace[i].bytes) >= 1
         /\ Len(trace[i].bytes) <= 4096
    /\ BytesFrom(trace, 1) = Payload[call.data.val]

\* a bulk command's data phase is the caller's slice
BulkVerbatim ==
  (IsSend /\ call.command \in BulkCommands /\ result = "Ok") =>
    BytesFrom(trace, 4) = call.data.val

C2_ChunkedVerbatim == WriteChunking /\ BulkVerbatim

(***************************************************************************)
(* C3.  A transport write that fails, in send_command or in write, is the  *)
(* last event of the call: it is not issued again, no later write is       *)
(* attempted (a failed opcode write suppresses the data phase, a failed    *)
(* chunk the later chunks), and the call returns the error of that write.  *)
(***************************************************************************)
C3_ErrorPropagates ==
  (call.op \in {"send_command", "write"}) =>
    /\ \A i \in 1..Len(trace) :
         (trace[i].k = "spi" /\ ~trace[i].ok) =>
           /\ i = Len(trace)
           /\ result = trace[i].err
           /\ result \in Errors
    /\ result \in Errors =>
         /\ Len(trace) >= 1
         /\ trace[Len(trace)].k = "spi"
         /\ ~trace[Len(trace)].ok

\* the opcode write of a command with arguments fails: nothing follows it
C3_Witness ==
  /\ IsSend
  /\ call.command = "DriverOutputControl"
  /\ result = "ETIMEDOUT"
  /\ Len(trace) = 2
  /\ ~trace[2].ok

\* the second of three chunks fails: the third is never written
C3_WitnessChunk ==
  /\ call.op = "write"
  /\ linux
  /\ call.data.val > 2 * ChunkSize
  /\ result = "EIO"
  /\ Len(trace) = 2
  /\ ~trace[2].ok

(***************************************************************************)
(* C4.  send_command on a command without an encoding fails with the       *)
(* unsupported-command outcome (the panic of unimplemented!()), before any *)
(* effect: no byte is written and the command-select line is not driven.   *)
(***************************************************************************)
C4_UnsupportedFails ==
  (IsSend /\ call.command \in UnencodedCommands) =>
    /\ result = "panic"
    /\ trace = <<>>

(***************************************************************************)
(* C5.  Two-byte fields go on the wire low byte first:                     *)
(* GateScanStartPostion(v) has the arguments [v mod 256, v div 256],       *)
(* DriverOutputControl(gates, dir) has [gates mod 256, gates div 256, dir],*)
(* StartEndYPosition(start, end) has [start mod 256, start div 256,        *)
(* end mod 256, end div 256].                                              *)
(***************************************************************************)
C5_LowByteFirst ==
  (IsSend /\ result = "Ok") =>
    LET v == call.data.val
        args == BytesFrom(trace, 4)
    IN  /\ call.command = "GateScanStartPostion" =>
             args = << v % 256, v \div 256 >>
        /\ call.command = "DriverOutputControl" =>
             args = << v[1] % 256, v[1] \div 256, v[2] >>
        /\ call.command = "StartEndYPosition" =>
             args = << v[1] % 256, v[1] \div 256, v[2] % 256, v[2] \div 256 >>

\* the one two-byte field whose arm is reached
C5_DriverOutputControlLowByteFirst ==
  (IsSend /\ result = "Ok" /\ call.command = "DriverOutputControl") =>
    BytesFrom(trace, 4) =
      << call.data.val[1] % 256, call.data.val[1] \div 256, call.data.val[2] >>

(***************************************************************************)
(* C6.  DataEntryMode has exactly one argument byte, the direction code    *)
(* (00, 01, 10, 11 in declaration order) ORed with the axis flag           *)
(* (Horizontal 000, Vertical 100): a byte in 0..7, distinct for distinct   *)
(* combinations.                                                           *)
(***************************************************************************)
DataEntryByte(m, a) ==
  (CASE m = "DecrementXDecrementY" -> 0
     [] m = "IncrementXDecrementY" -> 1
     [] m = "DecrementXIncrementY" -> 2
     [] m = "IncrementYIncrementX" -> 3)
  + (IF a = "Vertical" THEN 4 ELSE 0)

C6_DataEntryModeByte ==
  (IsSend /\ result = "Ok" /\ call.command = "DataEntryMode") =>
    /\ BytesFrom(trace, 4) = << DataEntryByte(call.data.val[1], call.data.val[2]) >>
    /\ BytesFrom(trace, 4)[1] \in 0..7

(***************************************************************************)
(* C7.  DeepSleepMode has exactly one argument byte, Normal 00,            *)
(* PreserveRAM 01, DiscardRAM 11, and the argument written after opcode    *)
(* 0x10 is never 10.                                                       *)
(***************************************************************************)
C7_DeepSleepModeByte ==
  /\ (IsSend /\ result = "Ok" /\ call.command = "DeepSleepMode") =>
       BytesFrom(trace, 4) =
         << CASE call.data.val = "Normal" -> 0
              [] call.data.val = "PreserveRAM" -> 1
              [] call.data.val = "DiscardRAM" -> 3 >>
  /\ (IsSend /\ Len(trace) >= 5 /\ trace[2].bytes = <<16>>) =>
       BytesFrom(trace, 4) # <<2>>

(***************************************************************************)
(* C8.  A reset() that returns has done: reset low, delay 10 ms, reset     *)
(* high, delay 10 ms, whatever the level of the line before, and leaves    *)
(* the reset line high.                                                    *)
(***************************************************************************)
C8_ResetSequence ==
  (call.op = "reset" /\ result = "Ok") =>
    /\ Len(trace) = 4
    /\ IsPin(trace[1], "reset", "low")
    /\ trace[2].k = "delay" /\ trace[2].ms = 10
    /\ IsPin(trace[3], "reset", "high")
    /\ trace[4].k = "delay" /\ trace[4].ms = 10
    /\ rst = "high"

C8_Witness == call.op = "reset" /\ result = "Ok" /\ Len(trace) = 4

C9_WitnessLow ==
  /\ call.op = "busy_wait"
  /\ result = "returned"
  /\ Len(trace) = 1
  /\ trace[1].v = "low"

C10_WitnessRows ==
  /\ call.op = "dimensions"
  /\ call.data.val = <<300, 160>>
  /\ result = "panic"

(***************************************************************************)
(* C11.  A look-up table handed to Display::lut is accepted only when it   *)
(* holds exactly 70 bytes: a table of 69 or of 71 bytes makes the call     *)
(* fail and is not stored, and a table of 70 bytes is accepted and stored. *)
(***************************************************************************)
C11_LutLength ==
  (call.op = "lut") =>
    LET lut == call.data.val
    IN  /\ (Len(lut) # 70) => (result # "Ok" /\ display.lut # <<lut>>)
        /\ (Len(lut) = 70) => (result = "Ok" /\ display.lut = <<lut>>)

(***************************************************************************)
(* C12.  dimensions(rows, 0) fails for every rows: a column count must be  *)
(* a positive multiple of 8.                                               *)
(***************************************************************************)
C12_ZeroColumnsRejected ==
  (call.op = "dimensions" /\ call.data.val[2] = 0) =>
    (result = "panic" /\ pc = "panicked")

(***************************************************************************)
(* C13.  A dummy-line period above 127 is rejected before any bus traffic: *)
(* no display holds a dummy_line_period above 127, a send_command of       *)
(* DummyLinePeriod with a period above 127 fails without touching a line   *)
(* or the transport, and no write of opcode 0x3A is followed by an         *)
(* argument byte above 127.                                                *)
(***************************************************************************)
C13_DummyLinePeriodLimit ==
  /\ display.dummy_line_period <= 127
  /\ (IsSend /\ call.command = "DummyLinePeriod" /\ call.data.val > 127) =>
       (result # "Ok" /\ trace = <<>>)
  /\ (IsSend /\ Len(trace) >= 2 /\ trace[2].bytes = <<58>>) =>
       \A i \in 1..Len(BytesFrom(trace, 4)) : BytesFrom(trace, 4)[i] <= 127

(***************************************************************************)
(* C14.  Each command send_command encodes is sent with its own opcode:    *)
(* the byte written in the opcode phase of a call is the command's entry   *)
(* in the opcode table, the entries lie in 0x01..0x7E, and no two commands *)
(* share one.                                                              *)
(***************************************************************************)
\* the opcode the claim gives each encoded command
OpcodeTable ==
  [ DriverOutputControl |-> 1, GateDrivingVoltage |-> 3,
    SourceDrivingVoltage |-> 4, BoosterEnable |-> 12,
    GateScanStartPostion |-> 15, DeepSleepMode |-> 16,
    DataEntryMode |-> 17, SoftReset |-> 18, UpdateDisplay |-> 32,
    UpdateDisplayOption2 |-> 34, WriteBlackData |-> 36,
    WriteColorData |-> 38, WriteVCOM |-> 44, WriteLUT |-> 50,
    DummyLinePeriod |-> 58, GateLineWidth |-> 59, BorderWaveform |-> 60,
    StartEndXPosition |-> 68, StartEndYPosition |-> 69, XAddress |-> 78,
    YAddress |-> 79, AnalogBlockControl |-> 116, DigitalBlockControl |-> 126 ]

C14_OpcodeTable ==
  /\ \A c \in DOMAIN OpcodeTable : OpcodeTable[c] \in 1..126
  /\ \A c, d \in DOMAIN OpcodeTable :
       OpcodeTable[c] = OpcodeTable[d] => c = d
  /\ (IsSend /\ call.command \in DOMAIN OpcodeTable /\ Len(trace) >= 2) =>
       trace[2].bytes = <<OpcodeTable[call.command]>>

(***************************************************************************)
(* C15.  Over any sequence of send_command, reset and busy_wait calls,     *)
(* failing ones included: a transport write made while command-select is   *)
(* low carries exactly one byte, an opcode, and is the first write of its  *)
(* call; every later write of the call, the argument and data bytes, is    *)
(* made while command-select is high; reset and busy_wait write nothing.   *)
(***************************************************************************)
\* the bytes the opcode table holds
Opcodes == { OpcodeTable[c] : c \in DOMAIN OpcodeTable }

\* event i of tr is the first transport write of tr
FirstWrite(tr, i) ==
  tr[i].k = "spi" /\ \A j \in 1..(i - 1) : tr[j].k # "spi"

C15_PhaseSeparation ==
  \A i \in 1..Len(trace) :
    (trace[i].k = "spi") =>
      /\ IsSend
      /\ FirstWrite(trace, i) =>
           /\ trace[i].dc = "low"
           /\ Len(trace[i].bytes) = 1
           /\ trace[i].bytes[1] \in Opcodes
      /\ ~FirstWrite(trace, i) => trace[i].dc = "high"

\* a call whose opcode write succeeded and whose data write failed
C15_Witness ==
  /\ IsSend
  /\ Len(trace) = 5
  /\ trace[2].k = "spi" /\ trace[2].ok /\ trace[2].dc = "low"
  /\ trace[5].k = "spi" /\ ~trace[5].ok /\ trace[5].dc = "high"

(***************************************************************************)
(* C16.  dimensions never clamps and never applies part of a call: a call  *)
(* that fails leaves rows and cols as they were, a call that succeeds      *)
(* stores exactly the rows and cols it was given; so, from a valid         *)
(* display on, the stored values always satisfy rows <= 296, cols <= 160   *)
(* and cols % 8 = 0.                                                       *)
(***************************************************************************)
C16_AllOrNothing ==
  /\ [](display.rows <= 296 /\ display.cols <= 160 /\ display.cols % 8 = 0)
  /\ [][ (call'.op = "dimensions") =>
           IF result' = "Ok"
           THEN /\ display'.rows = call'.data.val[1]
                /\ display'.cols = call'.data.val[2]
           ELSE /\ display'.rows = display.rows
                /\ display'.cols = display.cols ]_vars

\* a failed call on a display whose stored values differ from its arguments
C16_Witness ==
  /\ call.op = "dimensions"
  /\ result = "panic"
  /\ call.data.val = <<300, 168>>
  /\ display.rows = 212
  /\ display.cols = 104

LinesOf(tr) == { tr[i].line : i \in 1..Len(tr) }

C18_FrameEffects ==
  [][ /\ "cs" \notin LinesOf(trace')
      /\ (call'.op = "reset") =>
           (LinesOf(trace') \subseteq {"reset", "delay"} /\ dc' = dc)
      /\ (call'.op = "send_command") =>
           (LinesOf(trace') \subseteq {"dc", "spi"} /\ rst' = rst)
      /\ (call'.op = "busy_wait") =>
           (LinesOf(trace') \subseteq {"busy"} /\ dc' = dc /\ rst' = rst) ]_vars

\* a command with arguments sent while the reset line is low
C18_Witness ==
  /\ IsSend
  /\ result = "Ok"
  /\ rst = "low"
  /\ LinesOf(trace) = {"dc", "spi"}
  /\ Len(trace) = 5

(***************************************************************************)
(* C19.  Every command the data model lists as supported is encoded by     *)
(* send_command: sent on a transport and lines that do not fail, it is     *)
(* taken by the arm of the match written for it, an opcode is written and  *)
(* the call returns Ok, never the outcome of an unsupported command.       *)
(***************************************************************************)
SupportedCommands ==
  { "DriverOutputControl", "GateDrivingVoltage", "SourceDrivingVoltage",
    "BoosterEnable", "DeepSleepMode", "DataEntryMode", "SoftReset",
    "UpdateDisplay", "UpdateDisplayOption1", "UpdateDisplayOption2",
    "VCOMSenseDuration", "WriteVCOM", "DummyLinePeriod", "GateLineWidth",
    "BorderWaveform", "StartEndXPosition", "StartEndYPosition", "XAddress",
    "YAddress", "AnalogBlockControl", "DigitalBlockControl",
    "WriteBlackData", "WriteColorData", "WriteLUT" }

\* no event of tr failed
AllSucceed(tr) == \A i \in 1..Len(tr) : tr[i].ok

\* the part of C19 about the outcome alone
C19_ReturnsOk ==
  (IsSend /\ call.command \in SupportedCommands /\ AllSucceed(trace)) =>
    /\ result = "Ok"
    /\ \E i \in 1..Len(trace) :
         /\ FirstWrite(trace, i)
         /\ Len(trace[i].bytes) = 1
         /\ trace[i].bytes[1] \in Opcodes

C20_CommandSelectOnReturn ==
  (IsSend /\ result # "panic") =>
    IF result \in Errors /\ FirstWrite(trace, Len(trace))
    THEN dc = "low" /\ Len(trace) = 2
    ELSE dc = "high"

\* a bulk command whose opcode write failed
C20_Witness ==
  /\ IsSend
  /\ call.command = "WriteLUT"
  /\ result \in Errors
  /\ FirstWrite(trace, Len(trace))
  /\ dc = "low"

\* a command whose data write failed
C20_WitnessData ==
  /\ IsSend
  /\ result \in Errors
  /\ ~FirstWrite(trace, Len(trace))
  /\ dc = "high"

=============================================================================
